---- MODULE Spec2Model ----
(***************************************************************************)
(* Model of sacred/config_scope.py: ConfigScope, ConfigDict,               *)
(* recursive_fill_in and chain_evaluate_config_scopes.                     *)
(*                                                                         *)
(* Python values are records [t, v, d]: t is the concrete type, v the      *)
(* payload of a scalar and d the key -> value mapping of a dict.  A        *)
(* mapping is a function whose domain is a finite set of key strings.      *)
(* "ddict" is the tracking (dogmatic) dict type produced by dogmatize;     *)
(* it is a subclass of dict.                                               *)
(***************************************************************************)
EXTENDS Integers, Sequences, FiniteSets, TLC

VARIABLES fixed, preset, fallback, config_scopes, scopes0, pc, idx,
          final_config, config_summaries, presets_in, result, error, again

vars == <<fixed, preset, fallback, config_scopes, scopes0, pc, idx,
          final_config, config_summaries, presets_in, result, error, again>>

\* ------------------------------------------------------------------ bounds
MaxChain == 2

\* ------------------------------------------------------------------ values
EmptyMap == << >>

I(n) == [t |-> "int", v |-> n, d |-> EmptyMap]
Obj == [t |-> "object", v |-> 0, d |-> EmptyMap]
NpBool(b) == [t |-> "numpy.bool_", v |-> b, d |-> EmptyMap]
PyBool(b) == [t |-> "bool", v |-> b, d |-> EmptyMap]
D(m) == [t |-> "dict", v |-> 0, d |-> m]

\* isinstance(value, dict): DogmaticDict is a dict subclass
IsDict(val) == val.t \in {"dict", "ddict"}

\* key.startswith('_') over the key alphabet of the model
PrivateKeys == {"_c"}
startswith_(key) == key \in PrivateKeys

MapSet(m, k, val) == [x \in DOMAIN m \cup {k} |-> IF x = k THEN val ELSE m[x]]

\* mutant: the keys m already holds keep their values
DictUpdate_keep(m, other) ==
  [x \in DOMAIN m \cup DOMAIN other |-> IF x \in DOMAIN m THEN m[x] ELSE other[x]]

\* dict.update(other) on plain dicts
DictUpdate(m, other) ==
  [x \in DOMAIN m \cup DOMAIN other |-> IF x \in DOMAIN other THEN other[x] ELSE m[x]]

\* json.dumps(value) succeeds (no TypeError)
RECURSIVE json_dumps_ok(_)
json_dumps_ok(val) ==
  CASE val.t \in {"int", "bool"} -> TRUE
    [] val.t \in {"dict", "ddict"} -> \A k \in DOMAIN val.d : json_dumps_ok(val.d[k])
    [] OTHER -> FALSE

\* ------------------------------------------------- sacred.custom_containers
\* dogmatize: plain dicts (nested ones too) become tracking dicts
RECURSIVE dogmatize_value(_)
dogmatize_value(val) ==
  IF val.t = "dict"
    THEN [t |-> "ddict", v |-> 0, d |-> [k \in DOMAIN val.d |-> dogmatize_value(val.d[k])]]
    ELSE val

\* undogmatize: tracking dicts (nested ones too) become plain dicts again
RECURSIVE undogmatize(_)
undogmatize(val) ==
  IF val.t = "ddict"
    THEN [t |-> "dict", v |-> 0, d |-> [k \in DOMAIN val.d |-> undogmatize(val.d[k])]]
    ELSE val

undogmatize_map(m) == [k \in DOMAIN m |-> undogmatize(m[k])]

\* The tracking namespace: the primary store seeded from fixed, the
\* authoritative values (the keys present at initialization), the read-only
\* side-table and the provenance records.
dogmatize(fx) ==
  [store |-> [k \in DOMAIN fx |-> dogmatize_value(fx[k])],
   fixed |-> [k \in DOMAIN fx |-> dogmatize_value(fx[k])],
   fallback |-> EmptyMap,
   modified |-> {},
   typechanges |-> EmptyMap,
   ignored_fallback_writes |-> << >>]

RecordType(ns, key, val) ==
  IF key \in DOMAIN ns.store /\ undogmatize(ns.store[key]).t # undogmatize(val).t
    THEN MapSet(ns.typechanges, key, <<undogmatize(ns.store[key]).t, undogmatize(val).t>>)
    ELSE ns.typechanges

\* namespace[key] = val
ns_setitem(ns, key, val) ==
  IF key \in DOMAIN ns.fixed
    THEN [ns EXCEPT !.modified = @ \cup {key},
                    !.typechanges = RecordType(ns, key, val)]
    ELSE [ns EXCEPT !.store = MapSet(@, key, val),
                    !.typechanges = RecordType(ns, key, val),
                    !.ignored_fallback_writes =
                       IF key \notin DOMAIN ns.store /\ key \in DOMAIN ns.fallback
                         THEN Append(@, key) ELSE @]

\* namespace.update(m): one write per key of m
RECURSIVE ns_update(_, _)
ns_update(ns, m) ==
  IF DOMAIN m = {} THEN ns
  ELSE LET k == CHOOSE x \in DOMAIN m : TRUE
       IN ns_update(ns_setitem(ns, k, m[k]), [x \in DOMAIN m \ {k} |-> m[x]])

\* a name the body can read: a primary key, else a side-table name
ns_resolves(ns, key) == key \in DOMAIN ns.store \/ key \in DOMAIN ns.fallback
ns_getitem(ns, key) ==
  IF key \in DOMAIN ns.store THEN ns.store[key] ELSE ns.fallback[key]

\* keys present now minus keys present at initialization
revelation(ns) == DOMAIN ns.store \ DOMAIN ns.fixed

\* namespace[key][sub] = val: an item write into the dict bound to key.  A
\* nested tracking dict reverts a write to one of its authoritative keys; a
\* dict read through the side-table is the side-table's own object.
ns_setsubitem(ns, key, sub, val) ==
  IF key \in DOMAIN ns.store
    THEN IF /\ ns.store[key].t = "ddict"
            /\ key \in DOMAIN ns.fixed
            /\ sub \in DOMAIN ns.fixed[key].d
           THEN ns
           ELSE [ns EXCEPT !.store[key].d = MapSet(@, sub, val)]
    ELSE [ns EXCEPT !.fallback[key].d = MapSet(@, sub, val)]

\* -------------------------------------------------------- recursive_fill_in
\* mutant: fills in the top-level keys only, without recursing
recursive_fill_in_shallow(config, ps) ==
  [ok |-> TRUE,
   m |-> [k \in DOMAIN config \cup DOMAIN ps |->
            IF k \in DOMAIN config THEN config[k] ELSE ps[k]]]

\* ok is FALSE when the call raises TypeError: config[key] is a dict and
\* preset[key] is a value that cannot be iterated.
RECURSIVE recursive_fill_in(_, _)
recursive_fill_in(config, ps) ==
  LET sub(k) == recursive_fill_in(config[k].d, ps[k].d)
      descend == {k \in DOMAIN ps \cap DOMAIN config : IsDict(config[k])}
  IN [ok |-> \A k \in descend : IsDict(ps[k]) /\ sub(k).ok,
      m |-> [k \in DOMAIN config \cup DOMAIN ps |->
               IF k \notin DOMAIN config THEN ps[k]
               ELSE IF k \in descend /\ IsDict(ps[k])
                      THEN [config[k] EXCEPT !.d = sub(k).m]
                      ELSE config[k]]]

\* ------------------------------------------------------------ scope bodies
Assign(k, val) == [op |-> "assign", k |-> k, val |-> val, src |-> "", sub |-> ""]
Copy(k, src) == [op |-> "copy", k |-> k, val |-> I(0), src |-> src, sub |-> ""]
SetItem(k, sub, val) == [op |-> "setitem", k |-> k, val |-> val, src |-> "", sub |-> sub]

\* one statement of the body, run with the namespace as its locals
exec_stmt(ns, s) ==
  CASE s.op = "assign" -> [exc |-> "", ns |-> ns_setitem(ns, s.k, s.val)]
    [] s.op = "copy" ->
         IF ns_resolves(ns, s.src)
           THEN [exc |-> "", ns |-> ns_setitem(ns, s.k, ns_getitem(ns, s.src))]
           ELSE [exc |-> "NameError", ns |-> ns]
    [] s.op = "setitem" ->
         IF ~ns_resolves(ns, s.k) THEN [exc |-> "NameError", ns |-> ns]
         ELSE IF ~IsDict(ns_getitem(ns, s.k)) THEN [exc |-> "TypeError", ns |-> ns]
         ELSE [exc |-> "", ns |-> ns_setsubitem(ns, s.k, s.sub, s.val)]

\* eval(self._body_code, globals, cfg_locals)
RECURSIVE eval_body(_, _)
eval_body(body, ns) ==
  IF body = << >> THEN [exc |-> "", ns |-> ns]
  ELSE LET r == exec_stmt(ns, Head(body))
       IN IF r.exc # "" THEN r ELSE eval_body(Tail(body), r.ns)

\* ------------------------------------------------------------ ConfigSummary
ConfigSummary(m, added, ifw, modified, typechanges) ==
  [m |-> m, added_values |-> added, ignored_fallback_writes |-> ifw,
   modified |-> modified, typechanges |-> typechanges]

NoSummary == ConfigSummary(EmptyMap, {}, << >>, {}, EmptyMap)

Returned(summary) ==
  [exc |-> "", arg |-> "", available |-> {}, summary |-> summary]
Raised(exc, arg, available) ==
  [exc |-> exc, arg |-> arg, available |-> available, summary |-> NoSummary]

\* --------------------------------------------------- ConfigScope.__call__
\* mutant: a fallback argument is bound as a local like a preset argument
RECURSIVE bind_args_prebound(_, _, _, _, _)
bind_args_prebound(args, cfg_locals, fallback_view, ps, fb) ==
  IF args = << >>
    THEN [exc |-> "", arg |-> "", cfg_locals |-> cfg_locals,
          fallback_view |-> fallback_view]
  ELSE LET arg == Head(args)
       IN IF arg \notin DOMAIN ps \cup DOMAIN fb
            THEN [exc |-> "KeyError", arg |-> arg, cfg_locals |-> cfg_locals,
                  fallback_view |-> fallback_view]
          ELSE bind_args_prebound(Tail(args),
                                  ns_setitem(cfg_locals, arg,
                                             IF arg \in DOMAIN ps THEN ps[arg] ELSE fb[arg]),
                                  fallback_view, ps, fb)

\* mutant: only preset is searched for an argument
RECURSIVE bind_args_preset_only(_, _, _, _, _)
bind_args_preset_only(args, cfg_locals, fallback_view, ps, fb) ==
  IF args = << >>
    THEN [exc |-> "", arg |-> "", cfg_locals |-> cfg_locals,
          fallback_view |-> fallback_view]
  ELSE LET arg == Head(args)
       IN IF arg \notin DOMAIN ps
            THEN [exc |-> "KeyError", arg |-> arg, cfg_locals |-> cfg_locals,
                  fallback_view |-> fallback_view]
          ELSE bind_args_preset_only(Tail(args), ns_setitem(cfg_locals, arg, ps[arg]),
                                     fallback_view, ps, fb)

\* the loop over self.arg_spec.args: stops at the first unavailable argument
RECURSIVE bind_args(_, _, _, _, _)
bind_args(args, cfg_locals, fallback_view, ps, fb) ==
  IF args = << >>
    THEN [exc |-> "", arg |-> "", cfg_locals |-> cfg_locals,
          fallback_view |-> fallback_view]
  ELSE LET arg == Head(args)
       IN IF arg \notin DOMAIN ps \cup DOMAIN fb
            THEN [exc |-> "KeyError", arg |-> arg, cfg_locals |-> cfg_locals,
                  fallback_view |-> fallback_view]
          ELSE IF arg \in DOMAIN ps
            THEN bind_args(Tail(args), ns_setitem(cfg_locals, arg, ps[arg]),
                           fallback_view, ps, fb)
            ELSE bind_args(Tail(args), cfg_locals,
                           MapSet(fallback_view, arg, fb[arg]), ps, fb)

\* mutant: every local is copied into the summary
harvest_all(store) == [key \in DOMAIN store |-> undogmatize(store[key])]

\* the loop over cfg_locals.items() that fills the summary
harvest(store) ==
  LET keep == {key \in DOMAIN store :
                 /\ ~startswith_(key)
                 /\ store[key].t = "numpy.bool_" \/ json_dumps_ok(store[key])}
  IN [key \in keep |-> IF store[key].t = "numpy.bool_"
                         THEN PyBool(store[key].v)
                         ELSE undogmatize(store[key])]

ConfigScope_call(self, fx, ps, fb) ==
  LET bound == bind_args(self.args, dogmatize(fx), EmptyMap, ps, fb)
      cfg_locals == [bound.cfg_locals EXCEPT !.fallback = bound.fallback_view]
      ran == eval_body(self.body, cfg_locals)
      filled == recursive_fill_in(ran.ns.store, ps)
  IN IF bound.exc # ""
       THEN Raised(bound.exc, bound.arg, DOMAIN ps \cup DOMAIN fb)
     ELSE IF ran.exc # "" THEN Raised(ran.exc, "", {})
     ELSE IF ~filled.ok THEN Raised("TypeError", "", {})
     ELSE Returned(ConfigSummary(harvest(filled.m),
                                 revelation(ran.ns),
                                 ran.ns.ignored_fallback_writes,
                                 ran.ns.modified,
                                 ran.ns.typechanges))

\* ------------------------------------------------------------- ConfigDict
\* PYTHON_IDENTIFIER.match(key): identifier-shaped and not private
PYTHON_IDENTIFIER_match(key) == ~startswith_(key)

\* ConfigDict.__init__: ok is FALSE when it raises KeyError or ValueError
ConfigDict_init(d) ==
  LET badkey == \E key \in DOMAIN d : ~PYTHON_IDENTIFIER_match(key)
      badval == \E key \in DOMAIN d :
                   d[key].t # "numpy.bool_" /\ ~json_dumps_ok(d[key])
  IN [ok |-> ~badkey /\ ~badval,
      conf |-> [key \in DOMAIN d |-> IF d[key].t = "numpy.bool_"
                                       THEN PyBool(d[key].v)
                                       ELSE undogmatize(d[key])]]

ConfigDict_call(self, fx, ps, fb) ==
  LET res == ns_update(ns_update(dogmatize(fx), ps), self.conf)
  IN Returned(ConfigSummary(undogmatize_map(res.store),
                            revelation(res),
                            << >>,
                            res.modified,
                            res.typechanges))

\* mutant: the call merges preset into the stored literals
ConfigDict_conf_after_merged(self, fx, ps, fb) ==
  [x \in DOMAIN self.conf \cup DOMAIN ps |->
     IF x \in DOMAIN self.conf THEN self.conf[x] ELSE ps[x]]

\* what self._conf holds after __call__: the method never assigns it
ConfigDict_conf_after(self, fx, ps, fb) == self.conf

\* ------------------------------------------------------------ ConfigEntry
ConfigScope(args, body) ==
  [kind |-> "scope", args |-> args, body |-> body, conf |-> EmptyMap]
ConfigDict(d) ==
  [kind |-> "dict", args |-> << >>, body |-> << >>, conf |-> ConfigDict_init(d).conf]

\* config(fixed=..., preset=..., fallback=...)
Call(config, fx, ps, fb) ==
  IF config.kind = "scope" THEN ConfigScope_call(config, fx, ps, fb)
  ELSE ConfigDict_call(config, fx, ps, fb)

EntryAfterCall(config, fx, ps, fb) ==
  IF config.kind = "scope" THEN config
  ELSE [config EXCEPT !.conf = ConfigDict_conf_after(config, fx, ps, fb)]

\* ------------------------------------------------------------------ inputs
PQ(p, q) == D(("p" :> I(p)) @@ ("q" :> I(q)))
P(p) == D("p" :> I(p))

FixedSet ==
  { EmptyMap,
    "a" :> I(1),
    "a" :> Obj,
    "_c" :> I(1),
    "y" :> P(1) }

PresetSet ==
  { EmptyMap,
    ("a" :> I(1)) @@ ("b" :> Obj),
    ("a" :> I(2)) @@ ("_c" :> I(1)),
    "y" :> PQ(1, 2),
    "y" :> I(1) }

FallbackSet ==
  { EmptyMap,
    "a" :> I(1),
    ("a" :> I(2)) @@ ("y" :> P(1)) }

\* the literal mappings handed to ConfigDict(...); the constructor rejects
\* a private key and a value that is not JSON-serializable
Literals ==
  { "a" :> I(1),
    ("b" :> NpBool(1)) @@ ("y" :> P(1)),
    "_c" :> I(1),
    "a" :> Obj }

Scopes ==
  { ConfigScope(<<"a">>, << Copy("b", "a") >>),
    ConfigScope(<<"a">>, << Assign("a", I(2)) >>),
    ConfigScope(<< >>, << Assign("_c", I(1)), Assign("b", Obj) >>),
    ConfigScope(<<"y">>, << SetItem("y", "p", I(3)) >>),
    ConfigScope(<< >>, << Assign("y", P(3)), Copy("b", "a") >>),
    ConfigScope(<<"a", "y">>, << Assign("a", Obj), Assign("b", NpBool(1)) >>) }

Entries == Scopes \cup { ConfigDict(d) : d \in { l \in Literals : ConfigDict_init(l).ok } }

Chains == UNION { [1..n -> Entries] : n \in 0..MaxChain }

\* ------------------------------------------------------------------- state
NoResult == [returned |-> FALSE, final_config |-> EmptyMap, config_summaries |-> << >>]
NoError == [exc |-> "", arg |-> "", available |-> {}, entries_named |-> {}]
NoCall == [i |-> 0, r |-> Returned(NoSummary)]

Init ==
  /\ fixed \in FixedSet
  /\ preset \in PresetSet
  /\ fallback \in FallbackSet
  /\ config_scopes \in Chains
  /\ scopes0 = config_scopes
  /\ pc = "start"
  /\ idx = 0
  /\ final_config = EmptyMap
  /\ config_summaries = << >>
  /\ presets_in = << >>
  /\ result = NoResult
  /\ error = NoError
  /\ again = NoCall

\* ----------------------------------------- chain_evaluate_config_scopes
\* final_config = dict(preset or {}); config_summaries = []
ChainStart ==
  /\ pc = "start"
  /\ final_config' = preset
  /\ config_summaries' = << >>
  /\ idx' = 1
  /\ pc' = "loop"
  /\ UNCHANGED <<fixed, preset, fallback, config_scopes, scopes0, presets_in,
                 result, error, again>>

\* one iteration of the loop whose call returns
ChainEvaluate ==
  /\ pc = "loop"
  /\ idx <= Len(config_scopes)
  /\ LET cfg == Call(config_scopes[idx], fixed, final_config, fallback)
     IN /\ cfg.exc = ""
        /\ config_summaries' = Append(config_summaries, cfg.summary)
        /\ final_config' = DictUpdate(final_config, cfg.summary.m)
        /\ presets_in' = Append(presets_in, final_config)
        /\ config_scopes' = [config_scopes EXCEPT ![idx] =
                               EntryAfterCall(@, fixed, final_config, fallback)]
  /\ idx' = idx + 1
  /\ UNCHANGED <<fixed, preset, fallback, scopes0, pc, result, error, again>>

\* mutant: the exception of an entry is swallowed and the loop goes on
ChainRaise_swallow ==
  /\ pc = "loop"
  /\ idx <= Len(config_scopes)
  /\ Call(config_scopes[idx], fixed, final_config, fallback).exc # ""
  /\ idx' = idx + 1
  /\ UNCHANGED <<fixed, preset, fallback, config_scopes, scopes0, pc, final_config,
                 config_summaries, presets_in, result, error, again>>

\* one iteration of the loop whose call raises: the exception leaves
\* chain_evaluate_config_scopes as the entry raised it
ChainRaise ==
  /\ pc = "loop"
  /\ idx <= Len(config_scopes)
  /\ LET cfg == Call(config_scopes[idx], fixed, final_config, fallback)
     IN /\ cfg.exc # ""
        /\ error' = [exc |-> cfg.exc, arg |-> cfg.arg, available |-> cfg.available,
                     entries_named |-> {}]
  /\ pc' = "raised"
  /\ UNCHANGED <<fixed, preset, fallback, config_scopes, scopes0, idx, final_config,
                 config_summaries, presets_in, result, again>>

\* if not config_scopes: final_config.update(fixed); return
ChainReturn ==
  /\ pc = "loop"
  /\ idx > Len(config_scopes)
  /\ final_config' = IF config_scopes = << >> THEN DictUpdate(final_config, fixed)
                     ELSE final_config
  /\ result' = [returned |-> TRUE,
                final_config |-> undogmatize_map(final_config'),
                config_summaries |-> config_summaries]
  /\ pc' = "done"
  /\ UNCHANGED <<fixed, preset, fallback, config_scopes, scopes0, idx,
                 config_summaries, presets_in, error, again>>

\* the caller evaluates entry i once more with the inputs it was given
Reevaluate ==
  /\ pc = "done"
  /\ \E i \in 1..Len(config_scopes) :
       /\ again' = [i |-> i,
                    r |-> Call(config_scopes[i], fixed, presets_in[i], fallback)]
       /\ config_scopes' = [config_scopes EXCEPT ![i] =
                              EntryAfterCall(@, fixed, presets_in[i], fallback)]
  /\ UNCHANGED <<fixed, preset, fallback, scopes0, pc, idx, final_config,
                 config_summaries, presets_in, result, error>>

Next == ChainStart \/ ChainEvaluate \/ ChainRaise \/ ChainReturn \/ Reevaluate

Spec == Init /\ [][Next]_vars

TypeOK == pc \in {"start", "loop", "raised", "done"}

\* ------------------------------------------------------- claim vocabulary
\* the positions of the chain whose call has returned a summary
Evaluated == 1..Len(config_summaries)
ScopeEvals == {i \in Evaluated : scopes0[i].kind = "scope"}
DictEvals == {i \in Evaluated : scopes0[i].kind = "dict"}

Args(e) == {e.args[j] : j \in 1..Len(e.args)}
\* the names a body binds with an assignment statement
Targets(body) == {body[j].k : j \in {n \in 1..Len(body) : body[n].op \in {"assign", "copy"}}}
AssignsTo(body, k) == {j \in 1..Len(body) : body[j].op = "assign" /\ body[j].k = k}
\* the value of the last assignment statement to k
LastAssigned(body, k) ==
  body[CHOOSE j \in AssignsTo(body, k) : \A n \in AssignsTo(body, k) : n <= j].val

RECURSIVE Encodable(_)
Encodable(val) ==
  \/ val.t \in {"int", "bool"}
  \/ val.t = "dict" /\ \A k \in DOMAIN val.d : Encodable(val.d[k])

Overlay(lower, upper) ==
  [k \in DOMAIN lower \cup DOMAIN upper |-> IF k \in DOMAIN upper THEN upper[k] ELSE lower[k]]

\* entry i tried to give k a value other than fixed[k]
WroteDifferent(i, k) ==
  LET e == scopes0[i]
      ps == presets_in[i]
  IN IF e.kind = "dict"
       THEN \/ k \in DOMAIN ps /\ ps[k] # fixed[k]
            \/ k \in DOMAIN e.conf /\ e.conf[k] # fixed[k]
       ELSE \/ k \in Args(e) /\ k \in DOMAIN ps /\ ps[k] # fixed[k]
            \/ \E j \in AssignsTo(e.body, k) : e.body[j].val # fixed[k]

\* ---------------------------------------------------------------------- C1
\* C1: every key of fixed is in the result of every entry evaluation with
\* the value fixed gives it, and a key the entry wrote a different value to
\* is in the summary's modified set.
C1_FixedAlwaysWins ==
  \A i \in Evaluated : \A k \in DOMAIN fixed :
     /\ k \in DOMAIN config_summaries[i].m
     /\ config_summaries[i].m[k] = fixed[k]
     /\ WroteDifferent(i, k) => k \in config_summaries[i].modified

\* ---------------------------------------------------------------------- C2
\* C2: the added_values of a ConfigScope evaluation are exactly the keys the
\* body newly assigned; a declared parameter bound from preset that the body
\* never assigns is not among them.
C2_AddedValuesAreBodyKeys ==
  \A i \in ScopeEvals :
     LET e == scopes0[i]
         added == config_summaries[i].added_values
     IN /\ Targets(e.body) \ DOMAIN fixed \subseteq added
        /\ added \subseteq Targets(e.body)

\* ---------------------------------------------------------------------- C3
\* the declared parameters of entry i that only fallback can resolve
FallbackOnly(i) ==
  {p \in Args(scopes0[i]) :
     p \in DOMAIN fallback /\ p \notin DOMAIN presets_in[i] /\ p \notin DOMAIN fixed}

RECURSIVE PresetAfter(_)
PresetAfter(n) ==
  IF n = 0 THEN preset ELSE Overlay(PresetAfter(n - 1), config_summaries[n].m)

\* the result of A with fixed, and of B with fixed and preset = A's result
ResultOfA == Call(scopes0[1], fixed, EmptyMap, fallback).summary.m
ResultOfBAfterA == Call(scopes0[2], fixed, ResultOfA, fallback).summary.m

TwoEntryChainDone == pc = "done" /\ Len(scopes0) = 2 /\ preset = EmptyMap

C5_FixedNeverLost ==
  pc = "done" =>
    \A k \in DOMAIN fixed :
       k \in DOMAIN result.final_config /\ result.final_config[k] = fixed[k]

\* ---------------------------------------------------------------------- C6
\* C6 as stated: when entry idx raises, the chain stops there, returns
\* nothing, and the failure names the position of the entry that raised.
C6_FailureNamesEntry ==
  pc = "raised" =>
    /\ ~result.returned
    /\ idx \in error.entries_named

\* C6 (amended): when entry idx raises, the chain stops there: the entries
\* after it are not evaluated, neither a final result nor the summaries
\* gathered so far are returned, and the caller gets the entry's own
\* exception, which names no position.
C6_ChainAborts ==
  /\ pc \in {"loop", "raised", "done"} => Len(config_summaries) = idx - 1
  /\ pc = "raised" =>
       /\ ~result.returned
       /\ idx <= Len(scopes0)
       /\ error.exc = Call(scopes0[idx], fixed, PresetAfter(idx - 1), fallback).exc
       /\ error.exc # ""
       /\ error.entries_named = {}
       /\ ~ENABLED Next

\* the second entry of a chain raised after the first returned a summary
C6_Witness ==
  pc = "raised" /\ idx = 2 /\ Len(config_summaries) = 1 /\ error.exc # ""

\* ---------------------------------------------------------------------- C7
\* the declared parameters of e that neither preset ps nor fallback resolves
Unresolved(e, ps) ==
  {j \in 1..Len(e.args) : e.args[j] \notin DOMAIN ps \cup DOMAIN fallback}
FirstUnresolved(e, ps) ==
  e.args[CHOOSE j \in Unresolved(e, ps) : \A n \in Unresolved(e, ps) : j <= n]

\* C7: a ConfigScope evaluation raises the unresolved-parameter error exactly
\* when a declared parameter is in neither preset nor fallback (being in
\* fixed does not help); the error names the first such parameter and the
\* names preset and fallback offer, it comes before the body runs and no
\* summary is produced; a parameter in both preset and fallback is bound
\* from preset and does not enter the fallback side-table.
C7_UnresolvedParameter ==
  /\ \A i \in ScopeEvals : Unresolved(scopes0[i], presets_in[i]) = {}
  /\ (pc = "raised" /\ scopes0[idx].kind = "scope") =>
       /\ error.exc = "KeyError" <=> Unresolved(scopes0[idx], final_config) # {}
       /\ error.exc = "KeyError" =>
            /\ error.arg = FirstUnresolved(scopes0[idx], final_config)
            /\ error.available = DOMAIN final_config \cup DOMAIN fallback
            /\ Len(config_summaries) = idx - 1
  /\ \A i \in ScopeEvals :
       \A p \in Args(scopes0[i]) \cap DOMAIN presets_in[i] \cap DOMAIN fallback :
          LET s == config_summaries[i]
          IN /\ \A j \in 1..Len(s.ignored_fallback_writes) :
                   s.ignored_fallback_writes[j] # p
             /\ (/\ \A j \in 1..Len(scopes0[i].body) : scopes0[i].body[j].k # p
                 /\ p \notin DOMAIN fixed
                 /\ ~startswith_(p)
                 /\ Encodable(presets_in[i][p]))
                => p \in DOMAIN s.m /\ s.m[p] = presets_in[i][p]

\* a scope whose first parameter resolves and whose second does not, with
\* the second one present in fixed only or nowhere, raised the error
C7_Witness ==
  /\ pc = "raised"
  /\ scopes0[idx].kind = "scope"
  /\ Len(scopes0[idx].args) = 2
  /\ error.exc = "KeyError"
  /\ error.arg = scopes0[idx].args[2]
  /\ scopes0[idx].args[1] \in error.available

NamespaceAfterBody(i) ==
  LET e == scopes0[i]
      bound == bind_args(e.args, dogmatize(fixed), EmptyMap, presets_in[i], fallback)
  IN eval_body(e.body, [bound.cfg_locals EXCEPT !.fallback = bound.fallback_view]).ns.store

\* out keeps every key and value of before, completes the dicts of before
\* from the matching dicts of ps and takes the keys before lacks from ps
RECURSIVE Completes(_, _, _)
Completes(before, ps, out) ==
  /\ DOMAIN out = DOMAIN before \cup DOMAIN ps
  /\ \A k \in DOMAIN ps \ DOMAIN before : out[k] = ps[k]
  /\ \A k \in DOMAIN before :
        IF k \in DOMAIN ps /\ IsDict(before[k]) /\ IsDict(ps[k])
          THEN /\ out[k].t = before[k].t
               /\ Completes(before[k].d, ps[k].d, out[k].d)
          ELSE out[k] = before[k]

\* C9: recursive_fill_in(namespace, preset) adds the keys of preset the
\* namespace lacks, recurses into a dict the namespace and preset both hold,
\* and changes or removes no key that was present at any depth; every
\* top-level key of preset is in the namespace afterwards.
C9_PresetFillIn ==
  \A i \in ScopeEvals :
     LET before == NamespaceAfterBody(i)
         filled == recursive_fill_in(before, presets_in[i])
     IN /\ filled.ok
        /\ Completes(before, presets_in[i], filled.m)
        /\ DOMAIN presets_in[i] \subseteq DOMAIN filled.m
        /\ \A k \in DOMAIN config_summaries[i].m :
              k \in DOMAIN filled.m
              /\ (filled.m[k].t # "numpy.bool_"
                    => config_summaries[i].m[k] = undogmatize(filled.m[k]))

\* the body bound y.p and preset completed y.q: {y: {p: 3, q: 2}}
C9_Witness ==
  \E i \in ScopeEvals :
     /\ "y" \in DOMAIN presets_in[i]
     /\ presets_in[i]["y"] = PQ(1, 2)
     /\ "y" \in DOMAIN config_summaries[i].m
     /\ config_summaries[i].m["y"] = PQ(3, 2)
     /\ NamespaceAfterBody(i)["y"] = P(3)

\* --------------------------------------------------------------------- C10
CleanMapping(m) == \A k \in DOMAIN m : ~startswith_(k) /\ Encodable(m[k])

====
